---- MODULE Spec2Model ----
(***************************************************************************)
(* Minima hopping: the search-and-archive controller of                    *)
(* src/src/python/mh.py (class Minimahopping).                             *)
(*                                                                         *)
(* Floating point quantities are held as integers in fixed units:          *)
(*   energies, Ediff, energy_threshold   in 1e-6 eV                        *)
(*   temperature                          in 1e-3 K                        *)
(*   fingerprint components, distances    in 1e-3                          *)
(* A product x * f with f = n/d is floor(x*n/d).                           *)
(* A structure (ase Atoms after relaxation) is the pair of the two         *)
(* queries the controller makes of it: its potential energy e and its      *)
(* fingerprint fp (the value _get_OMFP returns for it).                    *)
(***************************************************************************)
EXTENDS Integers, Sequences, FiniteSets, TLC

(* ------------------------------ bounds --------------------------------- *)
\* hops over all runs together
MaxHops == 3
\* repeats ("Same" minimum found again in an escape) over all runs together
MaxSame == 2
\* processes started one after the other in the same directory
MaxRuns == 2
\* largest totalsteps argument of __call__
MaxSteps == 1

(* --------------------------- default settings -------------------------- *)
T0 == 2000000
beta_decrease == <<10, 11>>
beta_increase == <<11, 10>>
Ediff0 == 10000
alpha_a == <<95, 100>>
alpha_r == <<105, 100>>
energy_threshold == 50
n_poslow == 30
minima_threshold == 5
beta_s == <<105, 100>>

(* ------------------------------ arithmetic ----------------------------- *)
Abs(x) == IF x < 0 THEN -x ELSE x

\* floor(x * n / d) for x >= 0, without forming x * n
MulDiv(x, n, d) == (x \div d) * n + ((x % d) * n) \div d

Mul(x, f) == MulDiv(x, f[1], f[2])

\* round(num / den) to the nearest integer, halves away from zero
RoundDiv(num, den) ==
    IF num >= 0 THEN (2 * num + den) \div (2 * den)
    ELSE -((2 * (-num) + den) \div (2 * den))

RECURSIVE SqrtSearch(_, _, _)
SqrtSearch(n, lo, hi) ==
    IF lo >= hi THEN lo
    ELSE LET mid == (lo + hi + 1) \div 2
         IN IF mid * mid <= n THEN SqrtSearch(n, mid, hi)
            ELSE SqrtSearch(n, lo, mid - 1)

\* floor(sqrt(n))
ISqrt(n) == SqrtSearch(n, 0, IF n < 46340 THEN n ELSE 46340)

\* 1000 * ln(n), n = 1..8 (np.log)
Ln1000 == <<0, 693, 1099, 1386, 1609, 1792, 1946, 2079>>

(* ----------------------------- structures ------------------------------ *)
\* the local minima the perturb/relax collaborators can land in
StructA == [e |-> 0, fp |-> <<0, 0>>]
StructB == [e |-> 10200, fp |-> <<30, 40>>]
StructB2 == [e |-> 10230, fp |-> <<30, 40>>]
StructD == [e |-> 300, fp |-> <<30, 46>>]

Structures == {StructA, StructB, StructB2, StructD}

NoStruct == [e |-> 0, fp |-> <<>>]

Tags == {"Initial", "Same", "Inter", "Accepted", "Rejected", "NA"}

(* ------------------------- fingerprint distance ------------------------ *)
RECURSIVE SumSq(_, _)
SumSq(d1, d2) ==
    IF d1 = <<>> THEN 0
    ELSE (Head(d1) - Head(d2)) * (Head(d1) - Head(d2)) + SumSq(Tail(d1), Tail(d2))

\* 1-D descriptors: np.linalg.norm(desc1 - desc2)
fp_distance(desc1, desc2) == ISqrt(SumSq(desc1, desc2))

\* fp_distance(fp1, fp2) / fp2.shape[0] < minima_threshold
FpBelowThreshold(fp1, fp2) == fp_distance(fp1, fp2) < minima_threshold * Len(fp2)

(* --------------------------- Minimum records --------------------------- *)
Minimum(atoms_, n_visit_, fingerprint_, T_, ediff_, acc_rej_) ==
    [atoms |-> atoms_, n_visit |-> n_visit_, fingerprint |-> fingerprint_,
     T |-> T_, ediff |-> ediff_, acc_rej |-> acc_rej_]

\* Minimum.__lt__: records are ordered by potential energy
MinimumLt(m1, m2) == m1.atoms.e < m2.atoms.e

\* bisect.bisect (bisect_right): indices are 0-based as in the source
RECURSIVE BisectSearch(_, _, _, _)
BisectSearch(a, x, lo, hi) ==
    IF lo < hi
    THEN LET mid == (lo + hi) \div 2
         IN IF MinimumLt(x, a[mid + 1]) THEN BisectSearch(a, x, lo, mid)
            ELSE BisectSearch(a, x, mid + 1, hi)
    ELSE lo

bisect(a, x) == BisectSearch(a, x, 0, Len(a))

\* insort that overwrites the record before the insertion point
insort_overwrite(a, x) ==
    LET i == bisect(a, x)
    IN IF i = 0 THEN <<x>> \o a
       ELSE SubSeq(a, 1, i - 1) \o <<x>> \o SubSeq(a, i + 1, Len(a))

\* insort that appends instead of inserting at the bisection point
insort_append(a, x) == Append(a, x)

\* bisect.insort: insert x after the records not greater than it
insort(a, x) ==
    LET i == bisect(a, x)
    IN SubSeq(a, 1, i) \o <<x>> \o SubSeq(a, i + 1, Len(a))

\* list.sort(): stable, by MinimumLt
RECURSIVE sort(_)
sort(a) ==
    IF a = <<>> THEN <<>>
    ELSE insort(sort(SubSeq(a, 1, Len(a) - 1)), a[Len(a)])

IsSorted(a) == \A i \in 1..(Len(a) - 1) : a[i].atoms.e <= a[i + 1].atoms.e

(* ------------------------------ acceptance ----------------------------- *)
\* the for loop of _acc_rej_step over the candidates cands, in order; st holds
\* the fields the loop assigns
RECURSIVE AccRejLoop(_, _, _)
AccRejLoop(cands, e_pot_cur, st) ==
    IF cands = <<>> THEN st
    ELSE LET atom == Head(cands)
             e_pot == atom.e
         IN IF e_pot - e_pot_cur < st.Ediff
            THEN AccRejLoop(Tail(cands), e_pot_cur,
                     [Ediff |-> Mul(st.Ediff, alpha_a),
                      atoms_cur |-> atom,
                      acc_rej |-> "Accepted",
                      intermediate_minima |-> <<>>])
            ELSE AccRejLoop(Tail(cands), e_pot_cur,
                     [st EXCEPT !.Ediff = Mul(st.Ediff, alpha_r),
                                !.acc_rej = "Rejected"])

(* ---------------------------- novelty lookup --------------------------- *)
\* one record of the archive compared with the query: the new energy
\* difference, the count and the positions examined so far (1-based)
Compare(sorted, epot, fp1, i_compare, r) ==
    LET s == sorted[i_compare + 1]
    IN [energy_difference |-> Abs(s.atoms.e - epot),
        i |-> IF FpBelowThreshold(fp1, s.fingerprint) THEN r.i + 1 ELSE r.i,
        examined |-> r.examined \cup {i_compare + 1}]

\* the "backward" while loop; i_compare is 0-based as in the source
RECURSIVE ScanBackward(_, _, _, _, _)
ScanBackward(sorted, epot, fp1, i_compare, r) ==
    IF r.energy_difference < energy_threshold
    THEN IF i_compare - 1 < 0 THEN r
         ELSE ScanBackward(sorted, epot, fp1, i_compare - 1,
                           Compare(sorted, epot, fp1, i_compare - 1, r))
    ELSE r

\* the "forward" while loop; it starts from the energy difference the
\* backward loop left behind
RECURSIVE ScanForward(_, _, _, _, _)
ScanForward(sorted, epot, fp1, i_compare, r) ==
    IF r.energy_difference < energy_threshold
    THEN IF i_compare + 1 + 1 > Len(sorted) THEN r
         ELSE ScanForward(sorted, epot, fp1, i_compare + 1,
                          Compare(sorted, epot, fp1, i_compare + 1, r))
    ELSE r

\* the lookup that does not count the query structure itself
in_history_fp_from_zero(sorted, a, fp1) ==
    LET mini == Minimum(a, -1, fp1, 0, 0, "NA")
        i_start == bisect(sorted, mini)
        r0 == [energy_difference |-> 0, i |-> 0, examined |-> {}]
        rb == ScanBackward(sorted, a.e, fp1, i_start, r0)
    IN ScanForward(sorted, a.e, fp1, i_start, rb)

\* _in_history_fp for the query structure a with fingerprint fp1
in_history_fp(sorted, a, fp1) ==
    LET mini == Minimum(a, -1, fp1, 0, 0, "NA")
        i_start == bisect(sorted, mini)
        r0 == [energy_difference |-> 0, i |-> 1, examined |-> {}]
        rb == ScanBackward(sorted, a.e, fp1, i_start, r0)
    IN ScanForward(sorted, a.e, fp1, i_start, rb)

(* ----------------------------- temperature ----------------------------- *)
\* the controller raising the temperature by a fixed amount
AdjustedTemperature_additive(t, visits, enhanced) ==
    IF visits > 1 THEN t + 100000 ELSE Mul(t, beta_decrease)

\* the controller with the test of the count off by one
AdjustedTemperature_ge(t, visits, enhanced) ==
    IF visits >= 1
    THEN IF enhanced
         THEN Mul(Mul(t, beta_increase), <<1000 + Ln1000[visits], 1000>>)
         ELSE Mul(t, beta_increase)
    ELSE Mul(t, beta_decrease)

\* the temperature _adj_temperature assigns
AdjustedTemperature(t, visits, enhanced) ==
    IF visits > 1
    THEN IF enhanced
         THEN Mul(Mul(t, beta_increase), <<1000 + Ln1000[visits], 1000>>)
         ELSE Mul(t, beta_increase)
    ELSE Mul(t, beta_decrease)

(* ------------------------------ persistence ---------------------------- *)
\* '{:1.5f}' of Ediff, read back with float(): five decimals of an eV
FormatEdiff(x) == RoundDiv(x, 10) * 10

\* '{:1.5f}' of the temperature: finer than the unit of temperature here
FormatTemperature(x) == x

\* '{:1.2f}' of a / b, in hundredths
Frac(a, b) == RoundDiv(100 * a, b)

\* the line with the visit count reset before it is written
HistoryLine_reset_first(a, visits, t, ediff, nsame, nnotunique, nmin, tag) ==
    [energy |-> a.e, n_visits |-> 0,
     temperature |-> FormatTemperature(t), Ediff |-> FormatEdiff(ediff),
     same_frac |-> Frac(nsame, nmin),
     notunique_frac |-> Frac(nnotunique, nmin),
     unique_frac |-> Frac(nmin - (nnotunique + nsame), nmin),
     acc_rej |-> tag]

\* the line _history_log appends
HistoryLine(a, visits, t, ediff, nsame, nnotunique, nmin, tag) ==
    [energy |-> a.e, n_visits |-> visits,
     temperature |-> FormatTemperature(t), Ediff |-> FormatEdiff(ediff),
     same_frac |-> Frac(nsame, nmin),
     notunique_frac |-> Frac(nnotunique, nmin),
     unique_frac |-> Frac(nmin - (nnotunique + nsame), nmin),
     acc_rej |-> tag]

\* the structures _write_poslow writes, file min000000 first
RECURSIVE PoslowLoop(_, _)
PoslowLoop(sorted, i_poslow) ==
    IF sorted = <<>> THEN <<>>
    ELSE LET s == Head(sorted)
             written == IF s.n_visit = 1 THEN <<s.atoms>> ELSE <<>>
             i2 == i_poslow + Len(written)
         IN IF i2 - 1 > n_poslow THEN written
            ELSE written \o PoslowLoop(Tail(sorted), i2)

\* the directory minima/ after the files in written replaced the first ones
Overwrite(files, written) ==
    IF Len(written) >= Len(files) THEN written
    ELSE written \o SubSeq(files, Len(written) + 1, Len(files))

(* -------------------------------- state -------------------------------- *)
VARIABLES
    pc,                   \* where the process is: "off" when none is running
    enhanced_feedback,    \* setting
    totalsteps, counter,
    temperature, Ediff,
    atoms, atoms_cur, fp,
    all_minima, all_minima_sorted, unique_minima, accepted_minima,
    intermediate_minima,
    n_min, n_unique, n_notunique, n_same, n_visits, acc_rej, i_step,
    fp_in, energy_in, temperature_in, i_steps, escape, escape_energy,
    examined,             \* archive positions the last novelty lookup compared
    file_acc, file_min, file_fp, file_history, minima_files,
    call                  \* the library call under test, see SpecFp and SpecNew

\* settings this model keeps at their defaults
new_start == FALSE
start_lowest == FALSE
restart_optim == FALSE

runVars == <<enhanced_feedback, totalsteps, call>>
archVars == <<all_minima, all_minima_sorted, unique_minima, accepted_minima>>
cntVars == <<n_min, n_unique, n_notunique, n_same>>
escVars == <<fp_in, energy_in, temperature_in, i_steps, escape, escape_energy>>
fileVars == <<file_acc, file_min, file_fp, file_history, minima_files>>

vars == <<pc, enhanced_feedback, totalsteps, counter, temperature, Ediff,
          atoms, atoms_cur, fp, all_minima, all_minima_sorted, unique_minima,
          accepted_minima, intermediate_minima, n_min, n_unique, n_notunique,
          n_same, n_visits, acc_rej, i_step, fp_in, energy_in, temperature_in,
          i_steps, escape, escape_energy, examined, file_acc, file_min,
          file_fp, file_history, minima_files, call>>

RECURSIVE CountTag(_, _)
CountTag(lines, tags) ==
    IF lines = <<>> THEN 0
    ELSE (IF Head(lines).acc_rej \in tags THEN 1 ELSE 0) + CountTag(Tail(lines), tags)

\* hops completed and processes started so far, over all runs
HopsDone == CountTag(file_history, {"Accepted", "Rejected"})
RunsDone == CountTag(file_history, {"Initial"})
SameDone == CountTag(file_history, {"Same"})

\* no process is running and no file exists
Idle ==
    /\ pc = "off"
    /\ totalsteps = 0
    /\ counter = 0
    /\ temperature = T0
    /\ Ediff = Ediff0
    /\ atoms = StructA
    /\ atoms_cur = StructA
    /\ fp = <<>>
    /\ all_minima = <<>>
    /\ all_minima_sorted = <<>>
    /\ unique_minima = <<>>
    /\ accepted_minima = <<>>
    /\ intermediate_minima = <<>>
    /\ n_min = 1
    /\ n_unique = 0
    /\ n_notunique = 0
    /\ n_same = 0
    /\ n_visits = 0
    /\ acc_rej = "Initial"
    /\ i_step = 0
    /\ fp_in = <<>>
    /\ energy_in = 0
    /\ temperature_in = T0
    /\ i_steps = 0
    /\ escape = 0
    /\ escape_energy = 0
    /\ examined = {}
    /\ file_acc = <<>>
    /\ file_min = <<>>
    /\ file_fp = <<>>
    /\ file_history = <<>>
    /\ minima_files = <<>>

NoCall == [fn |-> "none"]

Init ==
    /\ Idle
    /\ enhanced_feedback \in BOOLEAN
    /\ call = NoCall

(* ------------------------------- startup ------------------------------- *)
\* the archive _startup builds from min.extxyz and the fingerprints fps
RECURSIVE RestoredMinima(_, _)
RestoredMinima(fps, minima) ==
    IF fps = <<>> \/ minima = <<>> THEN <<>>
    ELSE <<Minimum(Head(minima), 1, Head(fps), -100000, -10000000, "NA")>>
         \o RestoredMinima(Tail(fps), Tail(minima))

\* _get_OMFP of every structure read
RECURSIVE Fingerprints(_)
Fingerprints(minima) ==
    IF minima = <<>> THEN <<>>
    ELSE <<Head(minima).fp>> \o Fingerprints(Tail(minima))

\* the restart test without its assertion: a partial set of files is taken
\* for a fresh start
FilesAssertionFails_never(is_history, is_unique_minima) == FALSE

\* assert len(is_files)==1, 'Some but not all files exist for a restart.',
\* reached when not both files exist: it fails when exactly one does
FilesAssertionFails(is_history, is_unique_minima) ==
    Cardinality({is_history, is_unique_minima}) # 1

\* assert len(fps) == len(unique_minima)
FpAssertionFails(fps, minima) == Len(fps) # Len(minima)

\* no process is running: none was started yet, or the last one returned,
\* died of an assertion or was killed
Stopped == {"off", "aborted", "killed", "timeout"}

\* a new process: Minimahopping(atoms, ...) followed by __call__(steps) up to
\* the end of _startup
Call ==
    /\ pc \in Stopped
    /\ RunsDone < MaxRuns
    /\ \E steps \in 0..MaxSteps :
       LET is_acc_minima == file_acc # <<>>
           is_unique_minima == file_min # <<>>
           is_history == file_history # <<>>
           both == is_unique_minima /\ is_history
           is_restart == both /\ ~new_start
           some_not_all == ~both /\ FilesAssertionFails(is_history, is_unique_minima)
           use_cache == file_fp # <<>> /\ ~restart_optim
           fps == IF use_cache THEN file_fp ELSE Fingerprints(file_min)
           restored == RestoredMinima(fps, file_min)
           start == IF is_acc_minima THEN file_acc[Len(file_acc)]
                    ELSE file_min[Len(file_min)]
           last_line == file_history[Len(file_history)]
           a == IF is_restart
                THEN IF start_lowest THEN sort(restored)[1].atoms ELSE start
                ELSE StructA
           t == IF is_restart THEN last_line.temperature ELSE T0
           ed == IF is_restart THEN last_line.Ediff ELSE Ediff0
       IN /\ totalsteps' = steps
          /\ counter' = 0
          /\ IF some_not_all \/ (is_restart /\ use_cache /\ FpAssertionFails(file_fp, file_min))
             THEN \* AssertionError: the process ends in _startup
                  /\ pc' = "aborted"
                  /\ UNCHANGED <<temperature, Ediff, atoms, atoms_cur, archVars,
                                 intermediate_minima, cntVars, n_visits, acc_rej,
                                 i_step, fileVars>>
             ELSE /\ pc' = "loop"
                  /\ temperature' = t
                  /\ Ediff' = ed
                  /\ atoms' = a
                  /\ atoms_cur' = a
                  /\ all_minima' = IF is_restart THEN restored ELSE <<>>
                  /\ all_minima_sorted' = IF is_restart THEN sort(restored) ELSE <<>>
                  /\ unique_minima' = <<>>
                  /\ accepted_minima' = <<>>
                  /\ intermediate_minima' = <<>>
                  /\ i_step' = 0
                  /\ n_min' = 1
                  /\ n_unique' = 0
                  /\ n_notunique' = 0
                  /\ n_same' = 0
                  /\ acc_rej' = "Initial"
                  /\ n_visits' = 0
                  /\ file_acc' = IF is_restart THEN file_acc ELSE Append(file_acc, a)
                  /\ file_history' = Append(file_history,
                                            HistoryLine(a, 1, t, ed, 0, 0, 1, "Initial"))
                  /\ UNCHANGED <<file_min, file_fp, minima_files>>
    /\ fp' = <<>>
    /\ examined' = {}
    /\ UNCHANGED <<enhanced_feedback, call, escVars>>

(* ------------------------------ the hop loop --------------------------- *)
\* while self._counter <= totalsteps: the entry of _escape
HopStart ==
    /\ pc = "loop"
    /\ counter <= totalsteps
    /\ HopsDone < MaxHops
    /\ pc' = "escape"
    /\ fp_in' = atoms.fp
    /\ energy_in' = atoms.e
    /\ temperature_in' = temperature
    /\ i_steps' = 0
    /\ escape' = 0
    /\ escape_energy' = 0
    /\ UNCHANGED <<runVars, counter, temperature, Ediff, atoms, atoms_cur, fp,
                   archVars, intermediate_minima, cntVars, n_visits, acc_rej,
                   i_step, examined, fileVars>>

\* the loop of __call__ is left: the run terminates
Terminate ==
    /\ pc = "loop"
    /\ counter > totalsteps
    /\ pc' = "off"
    /\ UNCHANGED <<runVars, counter, temperature, Ediff, atoms, atoms_cur, fp,
                   archVars, intermediate_minima, cntVars, n_visits, acc_rej,
                   i_step, escVars, examined, fileVars>>

\* the loop condition with "and" for "or"
EscapeContinues_and(esc, esc_energy, shape) ==
    esc < minima_threshold * shape /\ esc_energy < energy_threshold

\* the condition of the while loop of _escape
EscapeContinues(esc, esc_energy, shape) ==
    esc < minima_threshold * shape \/ esc_energy < energy_threshold

\* the pass that takes its first iteration for a repeat as well
EscapeIter_boost_first ==
    /\ pc = "escape"
    /\ EscapeContinues(escape, escape_energy, Len(fp_in))
    /\ i_steps > 0 => SameDone < MaxSame
    /\ \E out \in Structures :
       LET same == i_steps >= 0
           nsame == IF same THEN n_same + 1 ELSE n_same
       IN /\ n_same' = nsame
          /\ acc_rej' = IF same THEN "Same" ELSE acc_rej
          /\ file_history' =
                IF same
                THEN Append(file_history,
                            HistoryLine(atoms, n_visits, temperature, Ediff,
                                        nsame, n_notunique, n_min, "Same"))
                ELSE file_history
          /\ n_visits' = IF same THEN 0 ELSE n_visits
          /\ temperature' = IF same THEN Mul(temperature, beta_s) ELSE temperature
          /\ atoms' = out
          /\ fp' = out.fp
          /\ escape' = fp_distance(fp_in, out.fp)
          /\ escape_energy' = Abs(energy_in - out.e)
    /\ i_steps' = i_steps + 1
    /\ n_min' = n_min + 1
    /\ pc' = "escape"
    /\ UNCHANGED <<runVars, counter, Ediff, atoms_cur, archVars,
                   intermediate_minima, n_unique, n_notunique, i_step, fp_in,
                   energy_in, temperature_in, examined, file_acc, file_min,
                   file_fp, minima_files>>

\* one pass of the while loop of _escape: perturb, relax, evaluate
EscapeIter ==
    /\ pc = "escape"
    /\ EscapeContinues(escape, escape_energy, Len(fp_in))
    /\ i_steps > 0 => SameDone < MaxSame
    /\ \E out \in Structures :
       LET same == i_steps > 0
           nsame == IF same THEN n_same + 1 ELSE n_same
       IN /\ n_same' = nsame
          /\ acc_rej' = IF same THEN "Same" ELSE acc_rej
          /\ file_history' =
                IF same
                THEN Append(file_history,
                            HistoryLine(atoms, n_visits, temperature, Ediff,
                                        nsame, n_notunique, n_min, "Same"))
                ELSE file_history
          /\ n_visits' = IF same THEN 0 ELSE n_visits
          /\ temperature' = IF same THEN Mul(temperature, beta_s) ELSE temperature
          /\ atoms' = out
          /\ fp' = out.fp
          /\ escape' = fp_distance(fp_in, out.fp)
          /\ escape_energy' = Abs(energy_in - out.e)
    /\ i_steps' = i_steps + 1
    /\ n_min' = n_min + 1
    /\ pc' = "escape"
    /\ UNCHANGED <<runVars, counter, Ediff, atoms_cur, archVars,
                   intermediate_minima, n_unique, n_notunique, i_step, fp_in,
                   energy_in, temperature_in, examined, file_acc, file_min,
                   file_fp, minima_files>>

\* the return of _escape with a look at the clock in it
EscapeReturn_timed ==
    /\ pc = "escape"
    /\ ~EscapeContinues(escape, escape_energy, Len(fp_in))
    /\ intermediate_minima' = Append(intermediate_minima, atoms)
    /\ acc_rej' = "Inter"
    /\ file_history' = Append(file_history,
                              HistoryLine(atoms, n_visits, temperature, Ediff,
                                          n_same, n_notunique, n_min, "Inter"))
    /\ n_visits' = 0
    /\ \E over \in BOOLEAN : pc' = IF over THEN "timeout" ELSE "acc_rej"
    /\ UNCHANGED <<runVars, counter, temperature, Ediff, atoms, atoms_cur, fp,
                   archVars, cntVars, i_step, escVars, examined, file_acc,
                   file_min, file_fp, minima_files>>

\* the while loop of _escape is left: the candidate is recorded
EscapeReturn ==
    /\ pc = "escape"
    /\ ~EscapeContinues(escape, escape_energy, Len(fp_in))
    /\ intermediate_minima' = Append(intermediate_minima, atoms)
    /\ acc_rej' = "Inter"
    /\ file_history' = Append(file_history,
                              HistoryLine(atoms, n_visits, temperature, Ediff,
                                          n_same, n_notunique, n_min, "Inter"))
    /\ n_visits' = 0
    /\ pc' = "acc_rej"
    /\ UNCHANGED <<runVars, counter, temperature, Ediff, atoms, atoms_cur, fp,
                   archVars, cntVars, i_step, escVars, examined, file_acc,
                   file_min, file_fp, minima_files>>

\* _acc_rej_step
AccRejStep ==
    /\ pc = "acc_rej"
    /\ LET st == AccRejLoop(intermediate_minima, atoms_cur.e,
                            [Ediff |-> Ediff, atoms_cur |-> atoms_cur,
                             acc_rej |-> acc_rej,
                             intermediate_minima |-> intermediate_minima])
       IN /\ Ediff' = st.Ediff
          /\ atoms_cur' = st.atoms_cur
          /\ acc_rej' = st.acc_rej
          /\ intermediate_minima' = st.intermediate_minima
    /\ pc' = "in_history"
    /\ UNCHANGED <<runVars, counter, temperature, atoms, fp, archVars, cntVars,
                   n_visits, i_step, escVars, examined, fileVars>>

\* _hoplog and self._n_visits = self._in_history_fp()
InHistoryFp ==
    /\ pc = "in_history"
    /\ i_step' = i_step + 1
    /\ LET r == in_history_fp(all_minima_sorted, atoms, fp)
       IN /\ n_visits' = r.i
          /\ examined' = r.examined
    /\ pc' = "adj_temperature"
    /\ UNCHANGED <<runVars, counter, temperature, Ediff, atoms, atoms_cur, fp,
                   archVars, intermediate_minima, cntVars, acc_rej, escVars,
                   fileVars>>

\* _adj_temperature, with _write_fp
AdjTemperature ==
    /\ pc = "adj_temperature"
    /\ temperature' = AdjustedTemperature(temperature, n_visits, enhanced_feedback)
    /\ IF n_visits > 1
       THEN /\ n_notunique' = n_notunique + 1
            /\ UNCHANGED <<n_unique, unique_minima, file_min, file_fp>>
       ELSE /\ n_unique' = n_unique + 1
            /\ unique_minima' = Append(unique_minima, atoms)
            /\ file_min' = Append(file_min, atoms)
            /\ file_fp' = Append(file_fp, fp)
            /\ UNCHANGED n_notunique
    /\ pc' = "update_data"
    /\ UNCHANGED <<runVars, counter, Ediff, atoms, atoms_cur, fp, all_minima,
                   all_minima_sorted, accepted_minima, intermediate_minima,
                   n_min, n_same, n_visits, acc_rej, i_step, escVars, examined,
                   file_acc, file_history, minima_files>>

\* _update_data
UpdateData ==
    /\ pc = "update_data"
    /\ IF acc_rej = "Accepted"
       THEN /\ accepted_minima' = Append(accepted_minima, atoms)
            /\ file_acc' = Append(file_acc, atoms)
       ELSE UNCHANGED <<accepted_minima, file_acc>>
    /\ LET mini == Minimum(atoms, n_visits, fp, temperature, Ediff, acc_rej)
       IN /\ all_minima' = Append(all_minima, mini)
          /\ all_minima_sorted' = insort(all_minima_sorted, mini)
    /\ pc' = "write_poslow"
    /\ UNCHANGED <<runVars, counter, temperature, Ediff, atoms, atoms_cur, fp,
                   unique_minima, intermediate_minima, cntVars, n_visits,
                   acc_rej, i_step, escVars, examined, file_min, file_fp,
                   file_history, minima_files>>

\* the rest of the loop body of __call__: _write_poslow, _history_log, the
\* working structure is reset to the reference, the step is counted
HopTail ==
    /\ pc = "write_poslow"
    /\ minima_files' = Overwrite(minima_files, PoslowLoop(all_minima_sorted, 0))
    /\ file_history' = Append(file_history,
                              HistoryLine(atoms, n_visits, temperature, Ediff,
                                          n_same, n_notunique, n_min, acc_rej))
    /\ n_visits' = 0
    /\ atoms' = atoms_cur
    /\ counter' = counter + 1
    /\ UNCHANGED <<runVars, temperature, Ediff, atoms_cur, fp, archVars,
                   intermediate_minima, cntVars, acc_rej, i_step, escVars,
                   examined, file_acc, file_min, file_fp>>

\* run_time = "infinit": the time check after the hop never stops the run
FinishHop ==
    /\ HopTail
    /\ pc' = "loop"

(* ----------------------------- environment ----------------------------- *)
\* the process is killed (wall time of the batch job, a signal): what it held
\* in memory is gone, the files stay as they are
Kill ==
    /\ pc \notin Stopped
    /\ pc' = "killed"
    /\ counter' = 0
    /\ temperature' = T0
    /\ Ediff' = Ediff0
    /\ atoms' = StructA
    /\ atoms_cur' = StructA
    /\ fp' = <<>>
    /\ all_minima' = <<>>
    /\ all_minima_sorted' = <<>>
    /\ unique_minima' = <<>>
    /\ accepted_minima' = <<>>
    /\ intermediate_minima' = <<>>
    /\ n_min' = 1
    /\ n_unique' = 0
    /\ n_notunique' = 0
    /\ n_same' = 0
    /\ n_visits' = 0
    /\ acc_rej' = "Initial"
    /\ i_step' = 0
    /\ fp_in' = <<>>
    /\ energy_in' = 0
    /\ temperature_in' = T0
    /\ i_steps' = 0
    /\ escape' = 0
    /\ escape_energy' = 0
    /\ examined' = {}
    /\ UNCHANGED <<runVars, fileVars>>

\* the user deletes fp.dat between two runs, as the assertion of _startup
\* asks ('delete fp file for fp recalculation')
DeleteFp ==
    /\ pc \in Stopped
    /\ file_fp # <<>>
    /\ file_fp' = <<>>
    /\ UNCHANGED <<pc, runVars, counter, temperature, Ediff, atoms, atoms_cur,
                   fp, archVars, intermediate_minima, cntVars, n_visits,
                   acc_rej, i_step, escVars, examined, file_acc, file_min,
                   file_history, minima_files>>

Next ==
    \/ Call
    \/ HopStart
    \/ Terminate
    \/ EscapeIter
    \/ EscapeReturn
    \/ AccRejStep
    \/ InHistoryFp
    \/ AdjTemperature
    \/ UpdateData
    \/ FinishHop

Spec == Init /\ [][Next]_vars

\* the runs together with what happens to them and their files from outside;
\* here every run is called with totalsteps = 0 and no escape repeats
NextEnv ==
    \/ Next /\ (totalsteps = 0 /\ SameDone = 0)'
    \/ Kill
    \/ DeleteFp

SpecEnv == Init /\ [][NextEnv]_vars

(* ------------------------------ time budget ---------------------------- *)
\* a run with run_time set to a duration: after the hop the elapsed time is
\* compared with it, and the clock may say anything
FinishHopTimed ==
    /\ HopTail
    /\ \E over \in BOOLEAN : pc' = IF over THEN "timeout" ELSE "loop"

NextTimed ==
    \/ Call
    \/ HopStart
    \/ Terminate
    \/ EscapeIter
    \/ EscapeReturn
    \/ AccRejStep
    \/ InHistoryFp
    \/ AdjTemperature
    \/ UpdateData
    \/ FinishHopTimed

SpecTimed == Init /\ [][NextTimed]_vars

(* ---------------- fingerprint distance of any two arrays --------------- *)
\* numpy arrays: ndim = len(shape); v is the vector (ndim 1) or the sequence
\* of rows (ndim 2); components are in units of 1e-3
Vec(v_) == [ndim |-> 1, v |-> v_]
Mat(rows_) == [ndim |-> 2, v |-> rows_]

\* the inputs of SpecFp: the bound is the number of rows and columns
MaxRows == 3

DescV1 == Vec(<<1000, 2000, 3000>>)
DescV2 == Vec(<<1000, 2000, 3500>>)
DescV3 == Vec(<<0, 0, 0>>)
DescM1 == Mat(<<<<0, 0>>, <<1000, 1000>>>>)
DescM2 == Mat(<<<<1000, 1000>>, <<0, 0>>>>)
DescM3 == Mat(<<<<0, 0>>, <<1000, 0>>>>)
DescM4 == Mat(<<<<2000, 0>>, <<3000, 0>>>>)
DescM5 == Mat(<<<<0, 0>>, <<1000, 1000>>, <<2000, 2000>>>>)
DescM6 == Mat(<<<<2000, 2000>>, <<0, 0>>, <<1000, 1000>>>>)
DescM7 == Mat(<<<<500, 0>>>>)
DescM8 == Mat(<<<<0, 0>>, <<1000, 0>>, <<0, 1000>>, <<1000, 1000>>>>)

Descriptors == {d \in {DescV1, DescV2, DescV3, DescM1, DescM2, DescM3, DescM4,
                       DescM5, DescM6, DescM7, DescM8} :
                   Len(d.v) <= MaxRows}

\* the assertions of fp_distance and _costmatrix
ShapeError_le(desc1, desc2) ==
    \/ desc1.ndim # desc2.ndim
    \/ desc1.ndim = 2 /\ Len(desc1.v) > Len(desc2.v)

ShapeError(desc1, desc2) ==
    \/ desc1.ndim # desc2.ndim
    \/ desc1.ndim >= 3
    \/ desc2.ndim >= 3
    \/ desc1.ndim = 2 /\ Len(desc1.v) # Len(desc2.v)

\* costmat[i, j] = np.linalg.norm(vec1 - vec2)
costmatrix(desc1, desc2) ==
    [i \in 1..Len(desc1.v) |->
        [j \in 1..Len(desc2.v) |-> fp_distance(desc1.v[i], desc2.v[j])]]

\* the one-to-one pairings of n rows with n columns: row i with column p[i]
Assignments(n) ==
    {p \in [1..n -> 1..n] : \A i, j \in 1..n : p[i] = p[j] => i = j}

RECURSIVE SumOver(_, _)
SumOver(f, n) == IF n = 0 THEN 0 ELSE f[n] + SumOver(f, n - 1)

AssignmentCost(costmat, p) ==
    SumOver([i \in DOMAIN p |-> costmat[i][p[i]]], Len(costmat))

\* scipy.optimize.linear_sum_assignment: an assignment of minimum total
\* cost; which one it returns among several of equal cost is not specified
linear_sum_assignment_identity(costmat) ==
    {[i \in 1..Len(costmat) |-> i]}

linear_sum_assignment_max(costmat) ==
    {p \in Assignments(Len(costmat)) :
        \A q \in Assignments(Len(costmat)) :
            AssignmentCost(costmat, p) >= AssignmentCost(costmat, q)}

linear_sum_assignment(costmat) ==
    {p \in Assignments(Len(costmat)) :
        \A q \in Assignments(Len(costmat)) :
            AssignmentCost(costmat, p) <= AssignmentCost(costmat, q)}

\* the loop over zip(ans_pos[0], ans_pos[1]) and the final np.sqrt
MatchedDistance(desc1, desc2, p) ==
    ISqrt(SumOver([i \in DOMAIN p |-> SumSq(desc1.v[i], desc2.v[p[i]])],
                  Len(desc1.v)))

\* every result one call of fp_distance can have
FpDistanceResults(desc1, desc2) ==
    IF ShapeError(desc1, desc2)
    THEN {[error |-> "AssertionError", ans_pos |-> <<>>, fp_dist |-> -1]}
    ELSE IF desc1.ndim = 1
    THEN {[error |-> "none", ans_pos |-> <<>>,
           fp_dist |-> fp_distance(desc1.v, desc2.v)]}
    ELSE {[error |-> "none", ans_pos |-> p,
           fp_dist |-> MatchedDistance(desc1, desc2, p)] :
             p \in linear_sum_assignment(costmatrix(desc1, desc2))}

\* fp_distance is called on two arrays, in both orders of its arguments
InitFp ==
    /\ Idle
    /\ enhanced_feedback = FALSE
    /\ \E d1, d2 \in Descriptors :
           call = [fn |-> "fp_distance", done |-> FALSE, desc1 |-> d1,
                   desc2 |-> d2, forward |-> NoCall, backward |-> NoCall]

FpDistanceCall ==
    /\ call.fn = "fp_distance"
    /\ ~call.done
    /\ \E r12 \in FpDistanceResults(call.desc1, call.desc2),
          r21 \in FpDistanceResults(call.desc2, call.desc1) :
           call' = [call EXCEPT !.done = TRUE, !.forward = r12,
                                !.backward = r21]
    /\ UNCHANGED <<pc, enhanced_feedback, totalsteps, counter, temperature,
                   Ediff, atoms, atoms_cur, fp, archVars, intermediate_minima,
                   cntVars, n_visits, acc_rej, i_step, escVars, examined,
                   fileVars>>

SpecFp == InitFp /\ [][FpDistanceCall]_vars

(* ----------------------------- construction ---------------------------- *)
\* Minimahopping._default_settings; dt and width_cutoff in 1e-3, fmax in 1e-9
default_settings ==
    [T0 |-> T0, beta_decrease |-> beta_decrease,
     beta_increase |-> beta_increase, Ediff0 |-> Ediff0, alpha_a |-> alpha_a,
     alpha_r |-> alpha_r, n_soft |-> 20, ns_orb |-> 1, np_orb |-> 1,
     width_cutoff |-> 3500, exclude |-> <<>>, dt |-> 50, mdmin |-> 2,
     fmax |-> 5000, enhanced_feedback |-> FALSE,
     energy_threshold |-> energy_threshold, n_poslow |-> n_poslow,
     minima_threshold |-> minima_threshold, restart_optim |-> restart_optim,
     start_lowest |-> start_lowest, verbose |-> TRUE, new_start |-> new_start,
     run_time |-> "infinit"]

\* the keyword arguments a caller passes, each with the value it passes;
\* dt0 and fixed_cell_simulation are passed by example/slab/fixed_cell
Supplied ==
    [T0 |-> 500000, Ediff0 |-> 20000, mdmin |-> 3, enhanced_feedback |-> TRUE,
     run_time |-> "0-00:10:00", dt0 |-> 10, fixed_cell_simulation |-> TRUE]

\* most keyword arguments in one call
MaxKwargs == 3

KwargsInputs ==
    {[k \in K |-> Supplied[k]] :
        K \in {S \in SUBSET (DOMAIN Supplied) : Cardinality(S) <= MaxKwargs}}

NoInstance == [settings |-> <<>>]

\* __init__ that takes the initial temperature from the default table
Minimahopping_default_T0(kwargs) ==
    IF \E key \in DOMAIN kwargs : key \notin DOMAIN default_settings
    THEN [error |-> "RuntimeError", self |-> NoInstance]
    ELSE LET settings == [k \in DOMAIN default_settings |->
                             IF k \in DOMAIN kwargs THEN kwargs[k]
                             ELSE default_settings[k]]
         IN [error |-> "none",
             self |-> [settings |-> settings,
                       temperature |-> default_settings.T0,
                       Ediff |-> settings.Ediff0,
                       counter |-> 0]]

\* Minimahopping.__init__(atoms, **kwargs)
Minimahopping(kwargs) ==
    IF \E key \in DOMAIN kwargs : key \notin DOMAIN default_settings
    THEN [error |-> "RuntimeError", self |-> NoInstance]
    ELSE LET settings == [k \in DOMAIN default_settings |->
                             IF k \in DOMAIN kwargs THEN kwargs[k]
                             ELSE default_settings[k]]
         IN [error |-> "none",
             self |-> [settings |-> settings,
                       temperature |-> settings.T0,
                       Ediff |-> settings.Ediff0,
                       counter |-> 0]]

InitNew ==
    /\ Idle
    /\ enhanced_feedback = FALSE
    /\ \E kw \in KwargsInputs :
           call = [fn |-> "__init__", done |-> FALSE, kwargs |-> kw,
                   result |-> NoCall]

\* the constructor runs; the fields of the new instance that the model holds
\* as variables take the instance's values
Construct ==
    /\ call.fn = "__init__"
    /\ ~call.done
    /\ LET r == Minimahopping(call.kwargs)
       IN /\ call' = [call EXCEPT !.done = TRUE, !.result = r]
          /\ IF r.error = "none"
             THEN /\ temperature' = r.self.temperature
                  /\ Ediff' = r.self.Ediff
                  /\ counter' = r.self.counter
                  /\ enhanced_feedback' = r.self.settings.enhanced_feedback
             ELSE UNCHANGED <<temperature, Ediff, counter, enhanced_feedback>>
    /\ UNCHANGED <<pc, totalsteps, atoms, atoms_cur, fp, archVars,
                   intermediate_minima, cntVars, n_visits, acc_rej, i_step,
                   escVars, examined, fileVars>>

SpecNew == InitNew /\ [][Construct]_vars

(* --------------------------- ranked snapshots -------------------------- *)
\* longest archive _write_poslow is called on
MaxArchive == 33

\* an archive of n records in ascending energy: all of them first visits
\* ("unique"), or every second one a revisit of the record before it
\* ("revisits")
ArchiveKinds == {"unique", "revisits"}

ArchiveRecord(i, kind) ==
    LET k == IF kind = "unique" THEN i ELSE (i + 1) \div 2
        visit == IF kind = "unique" \/ i % 2 = 1 THEN 1 ELSE 2
    IN Minimum([e |-> 1000 * k, fp |-> <<100 * k, 0>>], visit, <<100 * k, 0>>,
               T0, Ediff0, "Accepted")

Archive(n, kind) == [i \in 1..n |-> ArchiveRecord(i, kind)]

InitPoslow ==
    /\ Idle
    /\ enhanced_feedback = FALSE
    /\ \E n \in 0..MaxArchive, kind \in ArchiveKinds :
           call = [fn |-> "_write_poslow", done |-> FALSE,
                   sorted |-> Archive(n, kind)]

\* _write_poslow on the archive call.sorted, the directory minima/ empty
WritePoslow ==
    /\ call.fn = "_write_poslow"
    /\ ~call.done
    /\ call' = [call EXCEPT !.done = TRUE]
    /\ minima_files' = Overwrite(minima_files, PoslowLoop(call.sorted, 0))
    /\ UNCHANGED <<pc, enhanced_feedback, totalsteps, counter, temperature,
                   Ediff, atoms, atoms_cur, fp, archVars, intermediate_minima,
                   cntVars, n_visits, acc_rej, i_step, escVars, examined,
                   file_acc, file_min, file_fp, file_history>>

SpecPoslow == InitPoslow /\ [][WritePoslow]_vars

(* ------------------- file_handling: restart detection ------------------ *)
\* the three paths restart() is given; each names a directory that exists
\* or does not, and ends with the path separator, so that restart_path +
\* name is the file of that name in the directory
Paths == {"outpath", "restart_path", "minima_path"}

\* the files checkfiles looks for in restart_path
RestartFiles == {"minima.pickle.shelve.dat", "minima.pickle.shelve.dat.dat",
                 "poscur.extxyz", "params.json"}

\* checkfiles that looks for the parameter file only
checkfiles_params_only(files, is_master) == "params.json" \in files

\* checkfiles(restart_path, is_master), files being those in restart_path
checkfiles(files, is_master) ==
    LET is_database == \/ "minima.pickle.shelve.dat" \in files
                       \/ "minima.pickle.shelve.dat.dat" \in files
        is_minimum == "poscur.extxyz" \in files
        is_params == "params.json" \in files
        is_files1 == IF is_master /\ ~is_database THEN FALSE ELSE TRUE
        is_files2 == IF ~is_master /\ ~is_minimum THEN FALSE ELSE is_files1
    IN IF ~is_params THEN FALSE ELSE is_files2

\* restart(outpath, restart_path, minima_path, is_master) on the existing
\* directories dirs: the value returned and the directories afterwards
restart(dirs, files, is_master) ==
    LET is_output == "outpath" \in dirs
        is_restart == "restart_path" \in dirs
        made == dirs \cup {"outpath"} \cup {"restart_path"} \cup {"minima_path"}
    IN [is_restart |->
            IF is_restart /\ is_output THEN checkfiles(files, is_master)
            ELSE FALSE,
        dirs |-> made]

InitRestart ==
    /\ Idle
    /\ enhanced_feedback = FALSE
    /\ \E ds \in SUBSET Paths, fs \in SUBSET RestartFiles, master \in BOOLEAN :
           /\ "restart_path" \notin ds => fs = {}
           /\ call = [fn |-> "restart", done |-> FALSE, before |-> ds,
                      dirs |-> ds, files |-> fs, is_master |-> master,
                      is_restart |-> FALSE]

RestartCall ==
    /\ call.fn = "restart"
    /\ ~call.done
    /\ LET r == restart(call.dirs, call.files, call.is_master)
       IN call' = [call EXCEPT !.done = TRUE, !.dirs = r.dirs,
                               !.is_restart = r.is_restart]
    /\ UNCHANGED <<pc, enhanced_feedback, totalsteps, counter, temperature,
                   Ediff, atoms, atoms_cur, fp, archVars, intermediate_minima,
                   cntVars, n_visits, acc_rej, i_step, escVars, examined,
                   fileVars>>

SpecRestart == InitRestart /\ [][RestartCall]_vars

(* -------------------------------- claims ------------------------------- *)
\* the energy gap between archive record k and the query structure
Gap(k) == Abs(all_minima_sorted[k].atoms.e - atoms.e)

\* C1: when the novelty lookup has returned, if the archive holds a record
\* whose fingerprint has distance 0 to the query's and whose energy differs
\* from the query's by less than energy_threshold (below, equal or above),
\* the returned count is at least 2.
C1_DuplicateCounted ==
    pc = "adj_temperature" =>
        ((\E k \in 1..Len(all_minima_sorted) :
              /\ fp_distance(fp, all_minima_sorted[k].fingerprint) = 0
              /\ Gap(k) < energy_threshold)
         => n_visits >= 2)

\* C2: the novelty lookup returns exactly 1 + the number of archived records
\* within energy_threshold of the query whose normalised fingerprint distance
\* to it is below minima_threshold, on either side of the insertion point.
C2_ExactCount ==
    pc = "adj_temperature" =>
        n_visits = 1 + Cardinality({k \in 1..Len(all_minima_sorted) :
                                      /\ Gap(k) < energy_threshold
                                      /\ FpBelowThreshold(fp, all_minima_sorted[k].fingerprint)})

\* C3: the novelty lookup compares the query only with archived records whose
\* energy gap to it is below energy_threshold.
C3_ExaminedWithinWindow ==
    pc = "adj_temperature" =>
        \A k \in examined : Gap(k) < energy_threshold

\* C4: the sorted archive is non-decreasing in potential energy in every
\* reachable state, after insertions and after the sort of a restart.
C4_ArchiveSorted == IsSorted(all_minima_sorted)

\* C4 witness: a restarted run whose restored archive had to be reordered has
\* inserted a further record.
C4_Witness ==
    /\ Len(all_minima_sorted) >= 3
    /\ all_minima_sorted[1].acc_rej = "NA"
    /\ all_minima_sorted # all_minima
    /\ \E k \in 1..Len(all_minima_sorted) : all_minima_sorted[k].acc_rej # "NA"

\* C5: the acceptance step of a hop tagged Accepted multiplies Ediff by
\* alpha_a exactly once, that of a hop tagged Rejected by alpha_r exactly once.
C5_EdiffOncePerHop ==
    [][pc = "acc_rej" =>
          /\ (acc_rej' = "Accepted" => Ediff' = Mul(Ediff, alpha_a))
          /\ (acc_rej' = "Rejected" => Ediff' = Mul(Ediff, alpha_r))]_vars

\* C6: a hop whose tag is Rejected leaves the reference structure as it was.
C6_RejectKeepsReference ==
    [][(pc = "acc_rej" /\ acc_rej' = "Rejected") => atoms_cur' = atoms_cur]_vars

\* C7: at the acceptance step the intermediate set holds exactly the one
\* candidate of the current hop.
C7_OnlyCurrentCandidate ==
    pc = "acc_rej" => intermediate_minima = <<atoms>>

\* C8: when _escape has returned, at least one perturb/relax iteration was
\* made and the last candidate passes both gates against the baseline.
C8_EscapeExitGates ==
    pc = "acc_rej" =>
        /\ i_steps >= 1
        /\ fp_distance(fp_in, atoms.fp) >= minima_threshold * Len(atoms.fp)
        /\ Abs(energy_in - atoms.e) >= energy_threshold

\* C8 witness: an escape that needed a repeat has returned.
C8_Witness == pc = "acc_rej" /\ i_steps >= 2 /\ atoms.fp # fp_in

\* C9: the temperature at the end of a hop is the temperature at the start of
\* the hop times exactly one Temperature Controller factor.
C9_TemperatureOncePerHop ==
    [][pc = "adj_temperature" =>
          temperature' = AdjustedTemperature(temperature_in, n_visits,
                                             enhanced_feedback)]_vars

\* C10: _adj_temperature with novelty count 1 multiplies the temperature by
\* beta_decrease (a decrease), increments n_unique, appends the structure to
\* unique_minima and leaves n_notunique; with a count above 1 it multiplies
\* the temperature by beta_increase (times 1 + ln(count) under
\* enhanced_feedback; an increase), increments n_notunique and leaves n_unique
\* and unique_minima.
C10_TemperatureController ==
    [][pc = "adj_temperature" =>
          IF n_visits = 1
          THEN /\ temperature' = MulDiv(temperature, 10, 11)
               /\ temperature' < temperature
               /\ n_unique' = n_unique + 1
               /\ n_notunique' = n_notunique
               /\ unique_minima' = Append(unique_minima, atoms)
          ELSE /\ n_visits > 1
               /\ temperature' =
                     IF enhanced_feedback
                     THEN MulDiv(MulDiv(temperature, 11, 10),
                                 1000 + Ln1000[n_visits], 1000)
                     ELSE MulDiv(temperature, 11, 10)
               /\ temperature' > temperature
               /\ n_notunique' = n_notunique + 1
               /\ n_unique' = n_unique
               /\ unique_minima' = unique_minima]_vars

\* C10 witness: the controller has acted on a count above 1 under enhanced
\* feedback, after having acted on a count of 1.
C10_Witness ==
    /\ pc = "update_data"
    /\ n_visits > 1
    /\ enhanced_feedback
    /\ n_notunique >= 1
    /\ n_unique >= 1

\* C11: with no time budget, a call with totalsteps = N has executed exactly
\* N hops when it terminates.
C11_ExactlyTotalstepsHops ==
    [][(pc = "loop" /\ pc' = "off") => counter = totalsteps]_vars

\* the records of a, counted with multiplicity
Occurrences(a, r) == Cardinality({k \in 1..Len(a) : a[k] = r})

\* C12: in a fresh run, after h completed hops the chronological log and the
\* sorted archive both hold exactly h records, and the same records.
C12_OneRecordPerHop ==
    (RunsDone = 1 /\ pc = "loop") =>
        /\ Len(all_minima) = counter
        /\ Len(all_minima_sorted) = counter
        /\ \A k \in 1..Len(all_minima) :
              Occurrences(all_minima_sorted, all_minima[k])
                  = Occurrences(all_minima, all_minima[k])

\* C12 witness: a fresh run has completed two hops whose records the sorted
\* archive holds in another order than the log.
C12_Witness ==
    /\ RunsDone = 1
    /\ pc = "loop"
    /\ counter = 2
    /\ all_minima_sorted # all_minima

\* the values n successive multiplications by alpha_a or alpha_r can give
RECURSIVE EdiffProducts(_, _)
EdiffProducts(x, n) ==
    IF n = 0 THEN {x}
    ELSE LET prev == EdiffProducts(x, n - 1)
         IN {MulDiv(y, 95, 100) : y \in prev} \cup {MulDiv(y, 105, 100) : y \in prev}

\* C13: temperature and Ediff are strictly positive in every reachable state,
\* and inside the hop loop each changes only by multiplication with a
\* configured factor, the escape boost 1.05 or 1 + ln(count).
C13_PositiveMultiplicative ==
    /\ [](temperature > 0 /\ Ediff > 0)
    /\ [][pc \notin {"off", "aborted"} =>
             /\ temperature' \in
                   {temperature,
                    MulDiv(temperature, 105, 100),
                    MulDiv(temperature, 10, 11),
                    MulDiv(temperature, 11, 10),
                    MulDiv(MulDiv(temperature, 11, 10),
                           1000 + Ln1000[IF n_visits >= 1 THEN n_visits ELSE 1], 1000)}
             /\ \/ Ediff' = Ediff
                \/ /\ pc = "acc_rej"
                   /\ Ediff' \in EdiffProducts(Ediff, Len(intermediate_minima))]_vars

\* C13 witness: both quantities have been changed by the escape boost, the
\* controller and the acceptance step, over two hops.
C13_Witness ==
    /\ pc = "loop"
    /\ counter = 2
    /\ SameDone >= 1
    /\ temperature # T0
    /\ Ediff # Ediff0

\* exactly one of min.extxyz and history.dat exists
PartialFiles == (file_min = <<>>) # (file_history = <<>>)

\* C14 as stated: a process started when exactly one of min.extxyz and
\* history.dat exists does not abort but starts a fresh run.
C14_PartialFilesStartFresh ==
    [][(pc \in Stopped /\ PartialFiles /\ pc' # pc) => pc' = "loop"]_vars

\* C14 amended: a process started when exactly one of min.extxyz and
\* history.dat exists dies of the assertion in _startup: it never enters the
\* hop loop and writes nothing to the history, the unique-structures or the
\* accepted-structures file.
C14_PartialFilesAbort ==
    [][(pc \in Stopped /\ PartialFiles) =>
          /\ pc' \in Stopped
          /\ (pc' # pc => pc' = "aborted")
          /\ UNCHANGED <<file_history, file_min, file_acc>>]_vars

\* C14 witness: a process has died in _startup on a partial set of files.
C14_Witness == pc = "aborted" /\ PartialFiles

\* C15: at every hop boundary the descriptor cache holds as many records as
\* the unique-structures file.
C15_CacheMatchesMinima ==
    pc = "loop" => Len(file_fp) = Len(file_min)

\* a call of fp_distance has returned a distance
FpReturned ==
    /\ call.fn = "fp_distance"
    /\ call.done
    /\ call.forward.error = "none"

\* C16: for two descriptors of matching shape the distance is the same in
\* both orders of the arguments, also when several assignments have the
\* minimum total cost
C16_Symmetric ==
    FpReturned => call.forward.fp_dist = call.backward.fp_dist

\* C17 as stated: for [[0,0],[1,1]] against [[1,1],[0,0]] row 0 is matched
\* with row 1 and row 1 with row 0, and the distance returned is 2.0
C17_SwappedRowsDistanceTwo ==
    (FpReturned /\ call.desc1 = DescM1 /\ call.desc2 = DescM2)
        => (call.forward.ans_pos = <<2, 1>> /\ call.forward.fp_dist = 2000)

\* C17 amended: for [[0,0],[1,1]] against [[1,1],[0,0]] row 0 is matched
\* with row 1 and row 1 with row 0, and the distance returned is 0.0
C17_SwappedRowsDistanceZero ==
    (FpReturned /\ call.desc1 = DescM1 /\ call.desc2 = DescM2)
        => (call.forward.ans_pos = <<2, 1>> /\ call.forward.fp_dist = 0)

C17_Witness ==
    /\ FpReturned
    /\ call.desc1 = DescM1
    /\ call.desc2 = DescM2
    /\ call.forward.ans_pos = <<2, 1>>

\* desc2 holds the rows of desc1 in another order
IsRowPermutation(desc1, desc2) ==
    /\ desc1.ndim = 2
    /\ desc2.ndim = 2
    /\ Len(desc1.v) = Len(desc2.v)
    /\ \E p \in Assignments(Len(desc1.v)) :
           \A i \in DOMAIN p : desc1.v[i] = desc2.v[p[i]]

\* C18: the distance of a descriptor to itself is zero, for vectors and for
\* arrays of rows, and so is the distance of two arrays that hold the same
\* rows in a different order
C18_ZeroOnSameRows ==
    (FpReturned /\ (call.desc1 = call.desc2
                    \/ IsRowPermutation(call.desc1, call.desc2)))
        => call.forward.fp_dist = 0

C18_Witness ==
    /\ FpReturned
    /\ call.desc1 = DescM5
    /\ call.desc2 = DescM6
    /\ call.forward.fp_dist = 0

\* the two descriptors do not have the same kind of shape
ShapeMismatch(desc1, desc2) ==
    \/ desc1.ndim # desc2.ndim
    \/ desc1.ndim = 2 /\ desc2.ndim = 2 /\ Len(desc1.v) # Len(desc2.v)

\* C19: a vector against an array of rows, or two arrays with different
\* numbers of rows, end in an assertion error without a distance, and the
\* call changes nothing of the search state
C19_ShapeMismatchRejected ==
    /\ [](call.fn = "fp_distance" /\ call.done
          /\ ShapeMismatch(call.desc1, call.desc2)
            => call.forward = [error |-> "AssertionError", ans_pos |-> <<>>,
                               fp_dist |-> -1])
    /\ [][call.fn = "fp_distance" =>
            UNCHANGED <<pc, counter, temperature, Ediff, atoms, atoms_cur, fp,
                        archVars, intermediate_minima, cntVars, n_visits,
                        acc_rej, fileVars>>]_vars

C19_Witness ==
    /\ call.fn = "fp_distance"
    /\ call.done
    /\ call.desc1 = DescM1
    /\ call.desc2 = DescM5
    /\ call.forward.error = "AssertionError"

\* the value the caller of the constructor asked for, or the default
Requested(kwargs, k) ==
    IF k \in DOMAIN kwargs THEN kwargs[k] ELSE default_settings[k]

\* C20: a keyword that is not a recognized option makes the constructor
\* fail with an error and no instance; otherwise each setting has the
\* supplied value or else its default, the temperature is T0, Ediff is
\* Ediff0 and the step counter is 0
C20_Construction ==
    (call.fn = "__init__" /\ call.done) =>
        IF \E key \in DOMAIN call.kwargs : key \notin DOMAIN default_settings
        THEN /\ call.result.error = "RuntimeError"
             /\ call.result.self = NoInstance
        ELSE /\ call.result.error = "none"
             /\ \A k \in DOMAIN default_settings :
                    call.result.self.settings[k] = Requested(call.kwargs, k)
             /\ temperature = Requested(call.kwargs, "T0")
             /\ Ediff = Requested(call.kwargs, "Ediff0")
             /\ counter = 0

C20_Witness ==
    /\ call.fn = "__init__"
    /\ call.done
    /\ call.result.error = "none"
    /\ DOMAIN call.kwargs = {"T0", "mdmin"}
    /\ temperature = Supplied.T0
    /\ call.result.self.settings.mdmin = Supplied.mdmin
    /\ call.result.self.settings.dt = default_settings.dt

\* a hop boundary of the first run in an empty directory
FreshBoundary == pc = "loop" /\ RunsDone = 1

\* C21 as stated: after a fresh start and h completed hops, history.dat
\* holds h lines written by the hops, however often an escape repeated
C21_OneLinePerHop ==
    FreshBoundary => Len(file_history) - 1 = counter

\* the archive record of the last completed hop
LastHop == all_minima[Len(all_minima)]

\* C21 amended: after a fresh start and h completed hops, history.dat holds
\* the line of the start, for every hop one line tagged Inter and one line
\* tagged Accepted or Rejected, and one line tagged Same for every repeat of
\* an escape; the line tagged Accepted or Rejected carries the hop's energy,
\* visit count, temperature, Ediff, the three fractions and the tag
C21_HistoryLinesPerHop ==
    FreshBoundary =>
        /\ CountTag(file_history, {"Initial"}) = 1
        /\ CountTag(file_history, {"Accepted", "Rejected"}) = counter
        /\ CountTag(file_history, {"Inter"}) = counter
        /\ CountTag(file_history, {"Same"}) = n_same
        /\ Len(file_history) = 1 + 2 * counter + n_same
        /\ counter > 0 =>
              LET line == file_history[Len(file_history)]
              IN /\ line.energy = LastHop.atoms.e
                 /\ line.n_visits = LastHop.n_visit
                 /\ line.temperature = FormatTemperature(LastHop.T)
                 /\ line.Ediff = FormatEdiff(LastHop.ediff)
                 /\ line.same_frac = Frac(n_same, n_min)
                 /\ line.notunique_frac = Frac(n_notunique, n_min)
                 /\ line.unique_frac = Frac(n_unique + 1, n_min)
                 /\ line.acc_rej = LastHop.acc_rej

C21_Witness ==
    /\ FreshBoundary
    /\ counter = 2
    /\ n_same >= 1
    /\ LastHop.n_visit > 1

\* C23: the run is stopped for its time budget only at the end of a hop,
\* the clock is looked at once for every completed hop, and when the run
\* stops for it every hop started has done its escape, accept/reject step,
\* novelty lookup, temperature update, archive insertion and history write
C23_StopOnlyAtHopBoundary ==
    /\ [][/\ pc' = "timeout" => pc = "write_poslow"
          /\ counter' = counter + 1 <=>
                (pc = "write_poslow" /\ pc' \in {"loop", "timeout"})]_vars
    /\ [](pc = "timeout" =>
            /\ counter >= 1
            /\ i_step = counter
            /\ CountTag(file_history, {"Inter"})
                 = CountTag(file_history, {"Accepted", "Rejected"})
            /\ file_history[Len(file_history)].acc_rej
                 \in {"Accepted", "Rejected"}
            /\ file_history[Len(file_history)].energy = LastHop.atoms.e
            /\ LastHop.T = temperature
            /\ n_notunique + n_unique = counter
            /\ atoms = atoms_cur)

C23_Witness ==
    /\ pc = "timeout"
    /\ counter = 1
    /\ totalsteps = 1
    /\ n_same = 1

\* t after k boosts of an escape loop
RECURSIVE Boosted(_, _)
Boosted(t, k) == IF k <= 0 THEN t ELSE Mul(Boosted(t, k - 1), beta_s)

\* C24: an escape of k >= 1 perturb/relax iterations adds k - 1 to n_same,
\* multiplies the temperature k - 1 times by 1.05, adds k to n_min and
\* appends one candidate, the last one, to the intermediate set
C24_EscapeRepeats ==
    /\ [][(pc = "escape" /\ pc' = "escape") =>
            /\ i_steps' = i_steps + 1
            /\ n_min' = n_min + 1
            /\ n_same' = n_same + (IF i_steps > 0 THEN 1 ELSE 0)
            /\ temperature' = Boosted(temperature, IF i_steps > 0 THEN 1 ELSE 0)
            /\ intermediate_minima' = intermediate_minima]_vars
    /\ [][(pc = "escape" /\ pc' = "acc_rej") =>
            /\ i_steps >= 1
            /\ n_min = 2 + n_same + n_unique + n_notunique
            /\ temperature = Boosted(temperature_in, i_steps - 1)
            /\ intermediate_minima' = Append(intermediate_minima, atoms)
            /\ UNCHANGED <<n_min, n_same, temperature>>]_vars
    /\ [](pc = "escape" =>
            /\ temperature = Boosted(temperature_in, i_steps - 1)
            /\ n_min = 1 + n_same + n_unique + n_notunique
                         + (IF i_steps > 0 THEN 1 ELSE 0))

C24_Witness ==
    /\ pc = "acc_rej"
    /\ i_steps = 3
    /\ temperature = Boosted(temperature_in, 2)
    /\ temperature > temperature_in

\* the insertion point of the working structure in the archive
InsertionPoint ==
    bisect(all_minima_sorted, Minimum(atoms, -1, fp, 0, 0, "NA"))

\* C25: the novelty lookup returns a count of at least 1 for every archive,
\* the empty one and insertion points at either end included, and changes
\* neither the archive nor the counters, the temperature or Ediff
C25_LookupAtLeastOne ==
    [][pc = "in_history" =>
          /\ n_visits' >= 1
          /\ n_visits' <= Len(all_minima_sorted) + 1
          /\ UNCHANGED <<archVars, cntVars, temperature, Ediff>>]_vars

C25_Witness ==
    /\ pc = "adj_temperature"
    /\ all_minima_sorted # <<>>
    /\ InsertionPoint = 0
    /\ n_visits = 1

\* the archive records this run added, at a hop boundary
RunRecords ==
    SubSeq(all_minima, Len(all_minima) - counter + 1, Len(all_minima))

RECURSIVE CountFirstVisits(_)
CountFirstVisits(records) ==
    IF records = <<>> THEN 0
    ELSE (IF Head(records).n_visit = 1 THEN 1 ELSE 0)
         + CountFirstVisits(Tail(records))

\* C26: within a run n_min, n_same, n_unique and n_notunique never
\* decrease; at every hop boundary n_min = 1 + n_same + n_unique +
\* n_notunique and n_unique is the number of records with visit count 1 the
\* run added to the archive; at every history write n_same + n_notunique <=
\* n_min, so that the three fractions of every line lie in [0, 1]
C26_CounterConsistency ==
    /\ [][pc \notin Stopped =>
            /\ n_min' >= n_min
            /\ n_same' >= n_same
            /\ n_unique' >= n_unique
            /\ n_notunique' >= n_notunique]_vars
    /\ [][file_history' # file_history => (n_same + n_notunique <= n_min)']_vars
    /\ [](pc = "loop" =>
            /\ n_min = 1 + n_same + n_unique + n_notunique
            /\ Len(all_minima) >= counter
            /\ n_unique = CountFirstVisits(RunRecords))
    /\ [](\A k \in DOMAIN file_history :
            /\ file_history[k].same_frac \in 0..100
            /\ file_history[k].notunique_frac \in 0..100
            /\ file_history[k].unique_frac \in 0..100)

C26_Witness ==
    /\ pc = "loop"
    /\ counter = 2
    /\ n_same >= 1
    /\ n_unique >= 1
    /\ n_notunique >= 1

\* C27: in a fresh run, at every hop boundary the last structure in the
\* log of accepted structures is the reference structure, and the next
\* escape starts from it
C27_LastAcceptedIsReference ==
    FreshBoundary =>
        /\ file_acc[Len(file_acc)] = atoms_cur
        /\ atoms = atoms_cur

\* C28: restart returns True exactly when outpath and restart_path existed
\* before the call and restart_path holds params.json and, for the master,
\* the minima database file, otherwise poscur.extxyz; after the call the
\* three directories exist
C28_RestartDetection ==
    (call.fn = "restart" /\ call.done) =>
        /\ call.is_restart <=>
              /\ "outpath" \in call.before
              /\ "restart_path" \in call.before
              /\ "params.json" \in call.files
              /\ IF call.is_master
                 THEN \E f \in {"minima.pickle.shelve.dat",
                                "minima.pickle.shelve.dat.dat"} :
                          f \in call.files
                 ELSE "poscur.extxyz" \in call.files
        /\ call.dirs = Paths

C28_Witness ==
    /\ call.fn = "restart"
    /\ call.done
    /\ call.is_restart
    /\ ~call.is_master
    /\ "minima_path" \notin call.before
    /\ call.files = {"poscur.extxyz", "params.json"}

\* the structures of the records with visit count 1, in archive order
RECURSIVE FirstVisits(_)
FirstVisits(sorted) ==
    IF sorted = <<>> THEN <<>>
    ELSE (IF Head(sorted).n_visit = 1 THEN <<Head(sorted).atoms>> ELSE <<>>)
         \o FirstVisits(Tail(sorted))

\* C22: a call of _write_poslow writes at most n_poslow files, and they are
\* the lowest records with visit count 1 in ascending energy, from file 0 on
C22_AtMostNPoslow ==
    (call.fn = "_write_poslow" /\ call.done) =>
        /\ Len(minima_files) <= n_poslow
        /\ minima_files =
              SubSeq(FirstVisits(call.sorted), 1, Len(minima_files))

====
